---- MODULE Spec2Model ----
(***************************************************************************)
(* A model of src/dataset/nusc_mv_det_dataset.py: the NuscMVDetDataset     *)
(* constructor and its per-sample accessor __getitem__ (camera choice,     *)
(* key-frame and sweep resolution, the per-camera loop of get_image with   *)
(* the intrinsic/extrinsic perturbation, get_gt and the returned shapes).  *)
(* The module-level functions (equation_plane, get_sensor2virtual,         *)
(* get_depth_map, bev_transform, collate_fn) are modelled as operators and *)
(* run on their own inputs under the specification SpecFn.                 *)
(*                                                                         *)
(* Tensors are modelled by their nesting (a sequence of sequences) and by  *)
(* their shape; images and 4x4 matrices are represented by what decides    *)
(* them: the frame they come from and the perturbation applied to it.      *)
(* Indices into infos and into a sweeps list are 0-based as in the source. *)
(* use_cbgs is taken as False (the resampling heuristic is not modelled).  *)
(***************************************************************************)
EXTENDS Integers, Sequences, FiniteSets, TLC

VARIABLES
    args,                    \* the constructor's arguments (info file content included)
    self,                    \* the dataset object's fields
    pc,                      \* "new", "failed", "idle" or "image" (inside get_image)
    idx,                     \* __getitem__'s index
    cams,                    \* the cameras chosen by choose_cams
    cam_infos,               \* the frames handed to get_image
    lidar_infos,             \* the lidar records handed to get_image
    cam_pos,                 \* position in cams of the next camera get_image handles
    sweep_intrin_mats,       \* get_image: per camera, per frame, the perturbation in force
    sweep_timestamps,        \* get_image: the list of per-camera timestamp tensors
    sweep_reference_heights, \* get_image: per camera, per frame, the reference height
    gt_depth,                \* get_image: the depth maps appended so far
    gt_height,               \* get_image: the height maps appended so far
    ret,                     \* what the last finished __getitem__ returned (or raised)
    prev,                    \* index and shapes of the call finished before that one
    call                     \* a call of a module-level function: its input and output

vars == <<args, self, pc, idx, cams, cam_infos, lidar_infos, cam_pos,
          sweep_intrin_mats, sweep_timestamps, sweep_reference_heights,
          gt_depth, gt_height, ret, prev, call>>

-----------------------------------------------------------------------------
(* Bounds of the explored inputs *)

NumInfos == 3      \* records in the store
MaxSweeps == 2     \* longest sweeps list of a record
MaxOffset == 2     \* largest magnitude of a configured key or sweep offset
MaxAnns == 2       \* longest annotation list of a record
MaxIdxes == 2      \* longest configured list of key or sweep offsets

-----------------------------------------------------------------------------
(* Helpers *)

Min(a, b) == IF a < b THEN a ELSE b

SeqsUpTo(S, n) == UNION {[1..m -> S] : m \in 0..n}

\* Python's `sub in s` on strings
StrContains(sub, s) ==
    \E i \in 1..(Len(s) - Len(sub) + 1) : SubSeq(s, i, i + Len(sub) - 1) = sub

\* sum([p(x) for x in s])
RECURSIVE CountGE0(_)
CountGE0(s) ==
    IF s = <<>> THEN 0
    ELSE (IF Head(s) >= 0 THEN 1 ELSE 0) + CountGE0(Tail(s))

RECURSIVE CountLT0(_)
CountLT0(s) ==
    IF s = <<>> THEN 0
    ELSE (IF Head(s) < 0 THEN 1 ELSE 0) + CountLT0(Tail(s))

\* torch.stack(list of equally long 1-D tensors).permute(1, 0)
Permute10(m) == [f \in 1..Len(m[1]) |-> [c \in 1..Len(m) |-> m[c][f]]]

Shape2(m) == <<Len(m), Len(m[1])>>

-----------------------------------------------------------------------------
(* The data *)

ConfCams == <<"CAM_FRONT", "CAM_BACK">>        \* ida_aug_conf['cams']
CamSet == {ConfCams[i] : i \in 1..Len(ConfCams)}

Classes == <<"car", "pedestrian">>

map_name_from_general_to_detection ==
    [c \in {"human.pedestrian.adult", "animal", "vehicle.car", "vehicle.truck"} |->
        CASE c = "human.pedestrian.adult" -> "pedestrian"
          [] c = "animal" -> "ignore"
          [] c = "vehicle.car" -> "car"
          [] c = "vehicle.truck" -> "truck"]

Annotations ==
    [category_name : {"animal", "vehicle.car", "vehicle.truck"},
     num_lidar_pts : 0..1, num_radar_pts : 0..1]

DefaultAnn == [category_name |-> "vehicle.car", num_lidar_pts |-> 1, num_radar_pts |-> 0]

\* a record of the store; a sweep is the set of cameras it has an entry for
\* lidar_infos: whether the file named by LIDAR_TOP.filename is on disk, and the
\* number of float32 quadruples it holds
DefaultRecord ==
    [scene_token |-> "scene-1", sample_token |-> "sample", cam_infos |-> CamSet,
     lidar_infos |-> [file_exists |-> TRUE, num_points |-> 5],
     sweeps |-> <<CamSet>>, ann_infos |-> <<DefaultAnn>>]

DefaultStore == [r \in 1..NumInfos |-> DefaultRecord]

\* the scenes of a store are contiguous: records 0..b-1 are of the first scene
SceneStores ==
    {[r \in 1..NumInfos |->
        [DefaultRecord EXCEPT !.scene_token = IF r <= b THEN "scene-1" ELSE "scene-2"]]
     : b \in 1..NumInfos}

SweepCamSets == {CamSet, {ConfCams[1]}}

\* one record with any sweeps list (cameras may be missing in a sweep, and in
\* its own key frame), the others as DefaultRecord
SweepStores ==
    {[DefaultStore EXCEPT ![t] = [DefaultRecord EXCEPT !.sweeps = sw, !.cam_infos = kc]]
     : t \in 1..NumInfos, sw \in SeqsUpTo(SweepCamSets, MaxSweeps), kc \in SweepCamSets}

AnnStores ==
    {<<[DefaultRecord EXCEPT !.ann_infos = an]>> : an \in SeqsUpTo(Annotations, MaxAnns)}

BaseArgs ==
    [infos |-> DefaultStore, is_train |-> FALSE,
     ida_aug_conf |-> [cams |-> ConfCams, Ncams |-> Len(ConfCams), H |-> 4, W |-> 6,
                       final_dim |-> <<2, 3>>, bot_pct_lim |-> <<0, 0>>],
     classes |-> Classes, data_root |-> "data/nuscenes", return_depth |-> FALSE,
     sweep_idxes |-> <<>>, key_idxes |-> <<>>]

\* any sweep offsets with one key offset, and any key offsets with one sweep
\* offset, valid or not, on stores with a scene boundary
OffsetLists ==
    {<<sw, <<-1>>>> : sw \in SeqsUpTo(-1..MaxOffset, MaxIdxes)}
        \cup {<<<<0>>, ky>> : ky \in SeqsUpTo((0 - MaxOffset)..1, MaxIdxes)}

OffsetArgs ==
    {[BaseArgs EXCEPT !.infos = st, !.sweep_idxes = o[1], !.key_idxes = o[2]]
     : st \in SceneStores, o \in OffsetLists}

\* any sweeps list, training (random camera subset) with the perturbation off
SweepArgs ==
    {[BaseArgs EXCEPT !.infos = st, !.is_train = TRUE, !.ida_aug_conf.Ncams = n,
                      !.data_root = "data/waymo", !.return_depth = TRUE,
                      !.sweep_idxes = sw, !.key_idxes = ky]
     : st \in SweepStores, n \in 1..Len(ConfCams),
       sw \in {<<s>> : s \in 0..MaxOffset} \cup {<<0, 1>>},
       ky \in {<<>>, <<-1>>}}

\* any train / depth / dataset variant, one key frame and one sweep; with
\* return_depth (the only case in which the file is looked for) the LiDAR file is
\* on disk or not
ImageArgs ==
    {[BaseArgs EXCEPT !.infos = <<[DefaultRecord EXCEPT !.lidar_infos.file_exists = d[2]]>>,
                      !.is_train = tr, !.data_root = dr,
                      !.return_depth = d[1], !.sweep_idxes = <<0>>]
     : tr \in BOOLEAN, d \in {<<FALSE, TRUE>>, <<TRUE, TRUE>>, <<TRUE, FALSE>>},
       dr \in {"data/nuscenes", "data/waymo-v1", "data/thutraf"}}

\* not training, with fewer cameras asked for than configured
EvalArgs ==
    {[BaseArgs EXCEPT !.ida_aug_conf.Ncams = n, !.return_depth = rd, !.sweep_idxes = <<0>>]
     : n \in 1..Len(ConfCams), rd \in BOOLEAN}

\* any annotation list
AnnArgs ==
    {[BaseArgs EXCEPT !.infos = st, !.is_train = tr, !.data_root = "data/waymo",
                      !.return_depth = TRUE]
     : st \in AnnStores, tr \in BOOLEAN}

-----------------------------------------------------------------------------
(* State before construction *)

NoSelf ==
    [infos |-> <<>>, is_train |-> FALSE,
     ida_aug_conf |-> [cams |-> <<>>, Ncams |-> 0, H |-> 0, W |-> 0,
                       final_dim |-> <<0, 0>>, bot_pct_lim |-> <<0, 0>>],
     classes |-> <<>>, data_root |-> "", return_depth |-> FALSE,
     sweeps_idx |-> <<>>, key_idxes |-> <<>>]

NoRet ==
    [status |-> "none", idx |-> -1, len |-> 0, cams |-> <<>>, frames |-> <<>>,
     imgs_shape |-> <<>>, intrin_mats |-> <<>>, ida |-> <<>>, bda |-> <<>>,
     timestamps |-> <<>>, timestamps_shape |-> <<>>,
     reference_heights |-> <<>>, reference_heights_shape |-> <<>>,
     token |-> "",
     gt_boxes |-> <<>>, gt_boxes_shape |-> <<>>,
     gt_labels |-> <<>>, gt_labels_shape |-> <<>>,
     gt_depth |-> <<>>, gt_height |-> <<>>]

\* result: the whole return value of the call before, kept when the dataset is
\* not in training mode
NoPrev == [status |-> "none", idx |-> -1, shapes |-> <<>>, result |-> NoRet]

NoCall == [fn |-> "none"]

Init ==
    /\ args \in OffsetArgs \cup SweepArgs \cup ImageArgs \cup EvalArgs \cup AnnArgs
    /\ self = NoSelf
    /\ pc = "new"
    /\ idx = -1
    /\ cams = <<>>
    /\ cam_infos = <<>>
    /\ lidar_infos = <<>>
    /\ cam_pos = 0
    /\ sweep_intrin_mats = <<>>
    /\ sweep_timestamps = <<>>
    /\ sweep_reference_heights = <<>>
    /\ gt_depth = <<>>
    /\ gt_height = <<>>
    /\ ret = NoRet
    /\ prev = NoPrev
    /\ call = NoCall

-----------------------------------------------------------------------------
(* __init__ *)

\* sum([sweep_idx >= 0 for sweep_idx in sweep_idxes]) == len(sweep_idxes)
SweepIdxesValid(sweep_idxes) == CountGE0(sweep_idxes) = Len(sweep_idxes)

\* KeyIdxesValid with `<=` for `<`: offset 0 passes the assert
KeyIdxesValid_le(key_idxes) == \A j \in 1..Len(key_idxes) : key_idxes[j] <= 0

\* sum([key_idx < 0 for key_idx in key_idxes]) == len(key_idxes)
KeyIdxesValid(key_idxes) == CountLT0(key_idxes) = Len(key_idxes)

\* the object the constructor builds from its arguments
NewSelf(a) ==
    [infos |-> a.infos, is_train |-> a.is_train, ida_aug_conf |-> a.ida_aug_conf,
     classes |-> a.classes, data_root |-> a.data_root, return_depth |-> a.return_depth,
     sweeps_idx |-> a.sweep_idxes, key_idxes |-> <<0>> \o a.key_idxes]

\* a failed assert raises AssertionError: no object is built
Construct ==
    /\ pc = "new"
    /\ IF SweepIdxesValid(args.sweep_idxes) /\ KeyIdxesValid(args.key_idxes)
       THEN /\ self' = NewSelf(args)
            /\ pc' = "idle"
       ELSE /\ self' = self
            /\ pc' = "failed"
    /\ UNCHANGED <<args, idx, cams, cam_infos, lidar_infos, cam_pos, sweep_intrin_mats,
                   sweep_timestamps, sweep_reference_heights, gt_depth, gt_height,
                   ret, prev, call>>

-----------------------------------------------------------------------------
(* is_img_aug, choose_cams *)

\* is_img_aug without its "thutraf" branch
is_img_aug_waymo_only(s) ==
    IF ~s.return_depth THEN TRUE
    ELSE IF StrContains("waymo", s.data_root) THEN FALSE
    ELSE TRUE

is_img_aug(s) ==
    IF ~s.return_depth THEN TRUE
    ELSE IF StrContains("waymo", s.data_root) THEN FALSE
    ELSE IF StrContains("thutraf", s.data_root) THEN FALSE
    ELSE TRUE

\* choose_cams drawing a random subset outside training too
choose_cams_always(s) ==
    IF s.ida_aug_conf.Ncams < Len(s.ida_aug_conf.cams)
    THEN {c \in [1..s.ida_aug_conf.Ncams ->
                    {s.ida_aug_conf.cams[i] : i \in 1..Len(s.ida_aug_conf.cams)}] :
             \A i, j \in 1..s.ida_aug_conf.Ncams : c[i] = c[j] => i = j}
    ELSE {s.ida_aug_conf.cams}

\* np.random.choice(cams, Ncams, replace=False): any Ncams distinct cameras, in any order
choose_cams(s) ==
    IF s.is_train /\ s.ida_aug_conf.Ncams < Len(s.ida_aug_conf.cams)
    THEN {c \in [1..s.ida_aug_conf.Ncams ->
                    {s.ida_aug_conf.cams[i] : i \in 1..Len(s.ida_aug_conf.cams)}] :
             \A i, j \in 1..s.ida_aug_conf.Ncams : c[i] = c[j] => i = j}
    ELSE {s.ida_aug_conf.cams}

-----------------------------------------------------------------------------
(* __getitem__: key frames and sweeps *)

Info(s, i) == s.infos[i + 1]

\* CurIdx without the scene comparison
CurIdx_no_scene(s, id, key_idx) ==
    IF key_idx + id < 0 THEN id ELSE key_idx + id

\* the record read for key offset key_idx
CurIdx(s, id, key_idx) ==
    LET cur_idx == key_idx + id IN
    IF cur_idx < 0 THEN id
    ELSE IF Info(s, cur_idx).scene_token # Info(s, id).scene_token THEN id
    ELSE cur_idx

\* A frame of cam_infos is a reference to info['cam_infos'] or info['sweeps'][i] of
\* record rec; k and q are the positions of the key and sweep offsets it was
\* appended for (q = 0: the key frame itself).
Frame(src, rec, i, k, q) == [src |-> src, rec |-> rec, i |-> i, k |-> k, q |-> q]

\* the cameras a frame has an entry for
FrameCams(s, f) ==
    IF f.src = "cam_infos" THEN Info(s, f.rec).cam_infos
    ELSE Info(s, f.rec).sweeps[f.i + 1]

\* HasAllCams asking for some chosen camera instead of all of them
HasAllCams_any(sweep, cs) == \E j \in 1..Len(cs) : cs[j] \in sweep

\* sum([cam in info['sweeps'][i] for cam in cams]) == len(cams)
HasAllCams(sweep, cs) ==
    Cardinality({j \in 1..Len(cs) : cs[j] \in sweep}) = Len(cs)

\* for i in range(start, -1, -1): append the first sweep with all cameras, break
RECURSIVE SweepWalk(_, _, _, _, _, _)
SweepWalk(s, cur, i, cs, k, q) ==
    IF i < 0 THEN <<>>
    ELSE IF HasAllCams(Info(s, cur).sweeps[i + 1], cs)
         THEN <<Frame("sweeps", cur, i, k, q)>>
         ELSE SweepWalk(s, cur, i - 1, cs, k, q)

\* SweepFrames falling back to the key frame when the offset is past the list's end
SweepFrames_fallback(s, cur, sweep_idx, cs, k, q) ==
    IF Len(Info(s, cur).sweeps) = 0 \/ sweep_idx > Len(Info(s, cur).sweeps) - 1
    THEN <<Frame("cam_infos", cur, -1, k, q)>>
    ELSE SweepWalk(s, cur, sweep_idx, cs, k, q)

\* the body of `for sweep_idx in self.sweeps_idx`
SweepFrames(s, cur, sweep_idx, cs, k, q) ==
    IF Len(Info(s, cur).sweeps) = 0
    THEN <<Frame("cam_infos", cur, -1, k, q)>>
    ELSE SweepWalk(s, cur, Min(Len(Info(s, cur).sweeps) - 1, sweep_idx), cs, k, q)

RECURSIVE SweepLoop(_, _, _, _, _)
SweepLoop(s, cur, cs, k, q) ==
    IF q > Len(s.sweeps_idx) THEN <<>>
    ELSE SweepFrames(s, cur, s.sweeps_idx[q], cs, k, q) \o SweepLoop(s, cur, cs, k, q + 1)

\* the body of `for key_idx in self.key_idxes`, from position k on
RECURSIVE KeyLoop(_, _, _, _)
KeyLoop(s, id, cs, k) ==
    IF k > Len(s.key_idxes) THEN <<>>
    ELSE LET cur == CurIdx(s, id, s.key_idxes[k]) IN
         <<Frame("cam_infos", cur, -1, k, 0)>> \o SweepLoop(s, cur, cs, k, 1)
            \o KeyLoop(s, id, cs, k + 1)

\* lidar_infos gets an entry with every info['cam_infos'] appended
RECURSIVE LidarOf(_)
LidarOf(frames) ==
    IF frames = <<>> THEN <<>>
    ELSE (IF Head(frames).src = "cam_infos" THEN <<Head(frames).rec>> ELSE <<>>)
            \o LidarOf(Tail(frames))

Shapes(r) ==
    <<r.imgs_shape, r.timestamps_shape, r.reference_heights_shape,
      r.gt_boxes_shape, r.gt_labels_shape>>

\* __getitem__(i) up to the call of get_image
GetItem(i) ==
    /\ pc = "idle"
    /\ i \in 0..(Len(self.infos) - 1)
    /\ \E cs \in choose_cams(self) :
          /\ cams' = cs
          /\ cam_infos' = KeyLoop(self, i, cs, 1)
          /\ lidar_infos' = LidarOf(KeyLoop(self, i, cs, 1))
    /\ idx' = i
    /\ cam_pos' = 1
    /\ sweep_intrin_mats' = <<>>
    /\ sweep_timestamps' = <<>>
    /\ sweep_reference_heights' = <<>>
    /\ gt_depth' = <<>>
    /\ gt_height' = <<>>
    /\ pc' = "image"
    /\ prev' = [status |-> ret.status, idx |-> ret.idx, shapes |-> Shapes(ret),
                result |-> IF self.is_train THEN NoRet ELSE ret]
    /\ ret' = NoRet
    /\ UNCHANGED <<args, self, call>>

-----------------------------------------------------------------------------
(* get_image: the loop over the chosen cameras *)

\* values np.random.normal may return (ratio in tenths, roll and pitch in degrees)
RatioVals == {8, 12}
RollVals == {-2, 2}
PitchVals == {-1, 1}

\* no perturbation: intrinsics and ego-to-sensor transform as calibrated
NoAug == [data_augmentation |-> FALSE, ratio |-> 10, roll |-> 0, pitch |-> 0]

\* one call of sample_intrin_extrin_augmentation: three fresh draws
sample_intrin_extrin_augmentation ==
    {[data_augmentation |-> TRUE, ratio |-> ra, roll |-> ro, pitch |-> pi]
     : ra \in RatioVals, ro \in RollVals, pi \in PitchVals}

\* self.is_train and random.random() < 0.5 and self.is_img_aug()
DataAugmentation(s, coin) == s.is_train /\ coin /\ is_img_aug(s)

\* what one pass of the sweep loop's body may leave as the frame's perturbation
FrameAugs(s) ==
    {IF DataAugmentation(s, coin) THEN smp ELSE NoAug
     : coin \in BOOLEAN, smp \in sample_intrin_extrin_augmentation}

\* cam_info[cam]['timestamp']
Timestamp(f, cam) == [rec |-> f.rec, src |-> f.src, i |-> f.i, cam |-> cam]

\* get_reference_height(get_denorm(sweepego2sweepsensor)), after the perturbation
ReferenceHeight(f, cam, aug) ==
    [rec |-> f.rec, src |-> f.src, i |-> f.i, cam |-> cam,
     roll |-> aug.roll, pitch |-> aug.pitch]

\* resize = max(fH / H, fW / W) as a fraction <<numerator, denominator>>; the
\* crop window; bot_pct_lim in percent. No random draw: flip False, rotate 0.
sample_ida_augmentation(s) ==
    LET H == s.ida_aug_conf.H
        W == s.ida_aug_conf.W
        fH == s.ida_aug_conf.final_dim[1]
        fW == s.ida_aug_conf.final_dim[2]
        resize == IF fH * W >= fW * H THEN <<fH, H>> ELSE <<fW, W>>
        newW == (W * resize[1]) \div resize[2]
        newH == (H * resize[1]) \div resize[2]
        crop_h == ((200 - s.ida_aug_conf.bot_pct_lim[1] - s.ida_aug_conf.bot_pct_lim[2])
                        * newH) \div 200 - fH
        crop_w == (IF newW - fW > 0 THEN newW - fW ELSE 0) \div 2
    IN  [resize |-> resize, resize_dims |-> <<newW, newH>>,
         crop |-> <<crop_w, crop_h, crop_w + fW, crop_h + fH>>,
         flip |-> FALSE, rotate_ida |-> 0]

\* rotate_bda (degrees), scale_bda, flip_dx, flip_dy
sample_bda_augmentation ==
    [rotate_bda |-> 0, scale_bda |-> 1, flip_dx |-> FALSE, flip_dy |-> FALSE]

\* the size np.ones((1000, 4)) gives the substitute point cloud
PlaceholderPoints == 1000

\* LidarPoints reading the file without asking whether it exists
LidarPoints_no_fallback(s, rec) ==
    [source |-> "file", n |-> Info(s, rec).lidar_infos.num_points]

\* lidar_points: the file's content if os.path.exists(...), else np.ones((1000, 4))
LidarPoints(s, rec) ==
    IF Info(s, rec).lidar_infos.file_exists
    THEN [source |-> "file", n |-> Info(s, rec).lidar_infos.num_points]
    ELSE [source |-> "ones", n |-> PlaceholderPoints]

\* np.array(image) of a PIL image cropped to the window crop: rows, columns
CropShape(crop) == <<crop[4] - crop[2], crop[3] - crop[1]>>

\* the map appended to gt_depth (kind "depth") or gt_height (kind "height") for
\* camera cam: the points rasterised on the H x W grid, perturbed as the frame's
\* image when data_augmentation, then resized and cropped by img_transform
DepthMap(s, kind, cam, rec, aug) ==
    [kind |-> kind, cam |-> cam, points |-> LidarPoints(s, rec),
     grid |-> <<s.ida_aug_conf.H, s.ida_aug_conf.W>>, aug |-> aug,
     shape |-> CropShape(sample_ida_augmentation(s).crop)]

\* __getitem__ raised: the call ends, the dataset is as before
Raise(err) ==
    /\ ret' = [NoRet EXCEPT !.status = err, !.idx = idx, !.cams = cams]
    /\ pc' = "idle"
    /\ idx' = -1
    /\ cams' = <<>>
    /\ cam_infos' = <<>>
    /\ lidar_infos' = <<>>
    /\ cam_pos' = 0
    /\ sweep_intrin_mats' = <<>>
    /\ sweep_timestamps' = <<>>
    /\ sweep_reference_heights' = <<>>
    /\ gt_depth' = <<>>
    /\ gt_height' = <<>>

\* one pass of `for cam in cams`
GetImageCam ==
    /\ pc = "image"
    /\ cam_pos <= Len(cams)
    /\ LET cam == cams[cam_pos]
           n == Len(cam_infos)
       IN  IF \E f \in 1..n : cam \notin FrameCams(self, cam_infos[f])
           THEN Raise("KeyError")
           ELSE /\ \E augs \in [1..n -> FrameAugs(self)] :
                      /\ sweep_intrin_mats' = Append(sweep_intrin_mats, augs)
                      \* if self.return_depth and sweep_idx == 0
                      /\ IF self.return_depth
                         THEN /\ gt_depth' =
                                    Append(gt_depth, DepthMap(self, "depth", cam,
                                                              lidar_infos[1], augs[1]))
                              /\ gt_height' =
                                    Append(gt_height, DepthMap(self, "height", cam,
                                                               lidar_infos[1], augs[1]))
                         ELSE UNCHANGED <<gt_depth, gt_height>>
                      /\ sweep_reference_heights' =
                            Append(sweep_reference_heights,
                                   [f \in 1..n |-> ReferenceHeight(cam_infos[f], cam, augs[f])])
                \* sweep_timestamps is set to list() at the top of the pass
                /\ sweep_timestamps' =
                      Append(<<>>, [f \in 1..n |-> Timestamp(cam_infos[f], cam)])
                /\ cam_pos' = cam_pos + 1
                /\ UNCHANGED <<pc, idx, cams, cam_infos, lidar_infos, ret>>
    /\ UNCHANGED <<args, self, prev, call>>

-----------------------------------------------------------------------------
(* get_gt *)

BoxFields == <<"x", "y", "z", "dx", "dy", "dz", "yaw", "vx", "vy">>

\* np.concatenate([box_xyz, box_dxdydz, box_yaw, box_velo]) of annotation a
GtBox(a) == [j \in 1..Len(BoxFields) |-> <<BoxFields[j], a>>]

InClasses(name, classes) == \E j \in 1..Len(classes) : classes[j] = name

\* self.classes.index(name)
ClassIndex(name, classes) == (CHOOSE j \in 1..Len(classes) : classes[j] = name) - 1

\* Skipped without the test of the point counts
Skipped_class_only(s, ann) ==
    ~InClasses(map_name_from_general_to_detection[ann.category_name], s.classes)

\* the annotations the loop of get_gt skips
Skipped(s, ann) ==
    \/ ~InClasses(map_name_from_general_to_detection[ann.category_name], s.classes)
    \/ ann.num_lidar_pts + ann.num_radar_pts <= 0

RECURSIVE GtBoxes(_, _, _)
GtBoxes(s, anns, a) ==
    IF a > Len(anns) THEN <<>>
    ELSE (IF Skipped(s, anns[a]) THEN <<>> ELSE <<GtBox(a)>>) \o GtBoxes(s, anns, a + 1)

RECURSIVE GtLabels(_, _, _)
GtLabels(s, anns, a) ==
    IF a > Len(anns) THEN <<>>
    ELSE (IF Skipped(s, anns[a]) THEN <<>>
          ELSE <<ClassIndex(map_name_from_general_to_detection[anns[a].category_name],
                            s.classes)>>)
            \o GtLabels(s, anns, a + 1)

\* the shape of torch.Tensor(list of equally long arrays); of an empty list: [0]
TensorShape(rows) == IF rows = <<>> THEN <<0>> ELSE <<Len(rows), Len(rows[1])>>

\* gt_boxes and gt_labels of __getitem__: get_gt in training, empty tensors otherwise
GtOf(s, id) ==
    IF s.is_train
    THEN [boxes |-> GtBoxes(s, Info(s, id).ann_infos, 1),
          boxes_shape |-> TensorShape(GtBoxes(s, Info(s, id).ann_infos, 1)),
          labels |-> GtLabels(s, Info(s, id).ann_infos, 1),
          labels_shape |-> <<Len(GtLabels(s, Info(s, id).ann_infos, 1))>>]
    ELSE [boxes |-> <<>>, boxes_shape |-> <<0, 7>>,
          labels |-> <<>>, labels_shape |-> <<0>>]

-----------------------------------------------------------------------------
(* the end of get_image and of __getitem__ *)

\* AfterGetItem with choose_cams' result stored back in the configuration
AfterGetItem_store_cams(s, id, cs) == [s EXCEPT !.ida_aug_conf.cams = cs]

\* the dataset object when __getitem__(id) returns: the call and what it calls
\* assign to locals and to fresh objects only (img_metas is a new dict, Box copies
\* the annotation's arrays, lidar_points is passed as a copy)
AfterGetItem(s, id, cs) == s

\* bev_transform is the identity on the boxes: sample_bda_augmentation returns
\* rotate 0, scale 1 and no flip
Return ==
    /\ pc = "image"
    /\ cam_pos > Len(cams)
    /\ ret' = [status |-> "ok", idx |-> idx,
               len |-> IF self.return_depth THEN 14 ELSE 12,
               cams |-> cams, frames |-> cam_infos,
               imgs_shape |-> Shape2(Permute10(sweep_intrin_mats)),
               intrin_mats |-> Permute10(sweep_intrin_mats),
               ida |-> sample_ida_augmentation(self),
               bda |-> sample_bda_augmentation,
               timestamps |-> Permute10(sweep_timestamps),
               timestamps_shape |-> Shape2(Permute10(sweep_timestamps)),
               reference_heights |-> Permute10(sweep_reference_heights),
               reference_heights_shape |-> Shape2(Permute10(sweep_reference_heights)),
               token |-> Info(self, idx).sample_token,
               gt_boxes |-> GtOf(self, idx).boxes,
               gt_boxes_shape |-> GtOf(self, idx).boxes_shape,
               gt_labels |-> GtOf(self, idx).labels,
               gt_labels_shape |-> GtOf(self, idx).labels_shape,
               gt_depth |-> gt_depth, gt_height |-> gt_height]
    /\ self' = AfterGetItem(self, idx, cams)
    /\ pc' = "idle"
    /\ idx' = -1
    /\ cams' = <<>>
    /\ cam_infos' = <<>>
    /\ lidar_infos' = <<>>
    /\ cam_pos' = 0
    /\ sweep_intrin_mats' = <<>>
    /\ sweep_timestamps' = <<>>
    /\ sweep_reference_heights' = <<>>
    /\ gt_depth' = <<>>
    /\ gt_height' = <<>>
    /\ UNCHANGED <<args, prev, call>>

-----------------------------------------------------------------------------

Next ==
    \/ Construct
    \/ \E i \in 0..(NumInfos - 1) : GetItem(i)
    \/ GetImageCam
    \/ Return

Spec == Init /\ [][Next]_vars

TypeOK ==
    /\ pc \in {"new", "failed", "idle", "image"}
    /\ ret.status \in {"none", "ok", "KeyError"}

-----------------------------------------------------------------------------
(* The module-level functions, called on their own: `call` holds the function's *)
(* name, its arguments and, once it has run, what it returned or raised.        *)

MaxBatch == 2      \* most per-sample outputs handed to collate_fn
MaxBoxes == 2      \* most ground-truth boxes of a per-sample output

Pending == [status |-> "pending"]

\* no dataset object is involved in a call of a module-level function
Detached ==
    /\ args = BaseArgs
    /\ self = NoSelf
    /\ pc = "new"
    /\ idx = -1
    /\ cams = <<>>
    /\ cam_infos = <<>>
    /\ lidar_infos = <<>>
    /\ cam_pos = 0
    /\ sweep_intrin_mats = <<>>
    /\ sweep_timestamps = <<>>
    /\ sweep_reference_heights = <<>>
    /\ gt_depth = <<>>
    /\ gt_height = <<>>
    /\ ret = NoRet
    /\ prev = NoPrev

DatasetVars ==
    <<args, self, pc, idx, cams, cam_infos, lidar_infos, cam_pos, sweep_intrin_mats,
      sweep_timestamps, sweep_reference_heights, gt_depth, gt_height, ret, prev>>

-----------------------------------------------------------------------------
(* collate_fn *)

SampleTokens == <<"a", "b", "c", "d">>

\* an item of a per-sample output: the sample it belongs to and its shape
Item(name, token, shape) == [name |-> name, token |-> token, shape |-> shape]

\* the list __getitem__ returns for sample `token`: frames sweep frames, two
\* cameras, nboxes ground-truth boxes, the depth and height maps if depth
Sample(token, frames, nboxes, depth) ==
    <<Item("sweep_imgs", token, <<frames, 2, 3, 2, 3>>),
      Item("sweep_sensor2ego_mats", token, <<frames, 2, 4, 4>>),
      Item("sweep_intrins", token, <<frames, 2, 4, 4>>),
      Item("sweep_ida_mats", token, <<frames, 2, 4, 4>>),
      Item("sweep_sensor2sensor_mats", token, <<frames, 2, 4, 4>>),
      Item("sweep_sensor2virtual_mats", token, <<frames, 2, 4, 4>>),
      Item("bda_mat", token, <<4, 4>>),
      Item("sweep_timestamps", token, <<frames, 1>>),
      Item("sweep_reference_heights", token, <<frames, 2>>),
      Item("img_metas", token, <<>>),
      Item("gt_boxes", token, <<nboxes, 9>>),
      Item("gt_labels", token, <<nboxes>>)>>
    \o (IF depth THEN <<Item("gt_depth", token, <<2, 2, 3>>),
                         Item("gt_height", token, <<2, 2, 3>>)>>
        ELSE <<>>)

\* the batches: sample i carries token SampleTokens[i]
Batches ==
    UNION {{[i \in 1..m |-> Sample(SampleTokens[i], p[i][1], p[i][2], p[i][3])]
            : p \in [1..m -> (1..2) \X (0..MaxBoxes) \X BOOLEAN]}
           : m \in 0..MaxBatch}

\* Column appending the first sample's item at every pass of the loop
Column_first(data, k) == [i \in 1..Len(data) |-> data[1][k]]

\* x_batch after the loop `for iter_data in data`: item k of every sample, in order
Column(data, k) == [i \in 1..Len(data) |-> data[i][k]]

\* torch.stack raises RuntimeError on an empty list and on tensors of unequal shape
CanStack(list) ==
    /\ list # <<>>
    /\ \A i \in 1..Len(list) : list[i].shape = list[1].shape

\* torch.stack(list): a new leading dimension of size len(list)
Stack(list) == [stacked |-> list, shape |-> <<Len(list)>> \o list[1].shape]

StackedItems == {1, 2, 3, 4, 5, 6, 7, 8, 9}

\* collate_fn taking the presence of the depth items from the samples themselves
collate_fn_by_samples(data, is_return_depth) ==
    LET has == data # <<>> /\ \A i \in 1..Len(data) : Len(data[i]) >= 14 IN
    IF ~(\A k \in StackedItems : CanStack(Column(data, k)))
        \/ (has /\ ~(\A k \in {13, 14} : CanStack(Column(data, k))))
    THEN [status |-> "RuntimeError"]
    ELSE [status |-> "ok", len |-> IF has THEN 8 ELSE 6,
          imgs |-> Stack(Column(data, 1)),
          mats_dict |-> [sensor2ego_mats |-> Stack(Column(data, 2)),
                         intrin_mats |-> Stack(Column(data, 3)),
                         ida_mats |-> Stack(Column(data, 4)),
                         reference_heights |-> Stack(Column(data, 9)),
                         sensor2sensor_mats |-> Stack(Column(data, 5)),
                         sensor2virtual_mats |-> Stack(Column(data, 6)),
                         bda_mat |-> Stack(Column(data, 7))],
          timestamps |-> Stack(Column(data, 8)),
          img_metas |-> Column(data, 10),
          gt_boxes |-> Column(data, 11),
          gt_labels |-> Column(data, 12),
          depth |-> IF has THEN <<Stack(Column(data, 13))>> ELSE <<>>,
          height |-> IF has THEN <<Stack(Column(data, 14))>> ELSE <<>>]

\* iter_data[12] raises IndexError inside the loop, at the first sample without
\* the two extra items; the stacks come after the loop. The optional outputs are
\* a list of zero or one stacked tensor.
collate_fn(data, is_return_depth) ==
    IF is_return_depth /\ \E i \in 1..Len(data) : Len(data[i]) < 14
    THEN [status |-> "IndexError"]
    ELSE IF ~(\A k \in StackedItems : CanStack(Column(data, k)))
            \/ (is_return_depth /\ ~(\A k \in {13, 14} : CanStack(Column(data, k))))
    THEN [status |-> "RuntimeError"]
    ELSE [status |-> "ok", len |-> IF is_return_depth THEN 8 ELSE 6,
          imgs |-> Stack(Column(data, 1)),
          mats_dict |-> [sensor2ego_mats |-> Stack(Column(data, 2)),
                         intrin_mats |-> Stack(Column(data, 3)),
                         ida_mats |-> Stack(Column(data, 4)),
                         reference_heights |-> Stack(Column(data, 9)),
                         sensor2sensor_mats |-> Stack(Column(data, 5)),
                         sensor2virtual_mats |-> Stack(Column(data, 6)),
                         bda_mat |-> Stack(Column(data, 7))],
          timestamps |-> Stack(Column(data, 8)),
          img_metas |-> Column(data, 10),
          gt_boxes |-> Column(data, 11),
          gt_labels |-> Column(data, 12),
          depth |-> IF is_return_depth THEN <<Stack(Column(data, 13))>> ELSE <<>>,
          height |-> IF is_return_depth THEN <<Stack(Column(data, 14))>> ELSE <<>>]

CollateCalls ==
    {[fn |-> "collate_fn", data |-> d, is_return_depth |-> f, out |-> Pending]
     : d \in Batches, f \in BOOLEAN}

CallCollateFn ==
    /\ call.fn = "collate_fn"
    /\ call.out = Pending
    /\ call' = [call EXCEPT !.out = collate_fn(call.data, call.is_return_depth)]
    /\ UNCHANGED DatasetVars

-----------------------------------------------------------------------------
(* equation_plane, get_sensor2virtual *)

MaxCoord == 1      \* largest point coordinate or plane coefficient

Coords == -1..MaxCoord

\* equation_plane with the sign of b reversed
equation_plane_b_reversed(points) ==
    LET a1 == points[2][1] - points[1][1]
        b1 == points[2][2] - points[1][2]
        c1 == points[2][3] - points[1][3]
        a2 == points[3][1] - points[1][1]
        b2 == points[3][2] - points[1][2]
        c2 == points[3][3] - points[1][3]
        a == b1 * c2 - b2 * c1
        b == a1 * c2 - a2 * c1
        c == a1 * b2 - b1 * a2
    IN  <<a, b, c, 0 - a * points[1][1] - b * points[1][2] - c * points[1][3]>>

\* points: three points <<x, y, z>>; returns <<a, b, c, d>>
equation_plane(points) ==
    LET x1 == points[1][1]
        y1 == points[1][2]
        z1 == points[1][3]
        a1 == points[2][1] - x1
        b1 == points[2][2] - y1
        c1 == points[2][3] - z1
        a2 == points[3][1] - x1
        b2 == points[3][2] - y1
        c2 == points[3][3] - z1
        a == b1 * c2 - b2 * c1
        b == a2 * c1 - a1 * c2
        c == a1 * b2 - b1 * a2
        d == 0 - a * x1 - b * y1 - c * z1
    IN  <<a, b, c, d>>

PlaneCalls ==
    {[fn |-> "equation_plane", points |-> <<p1, p2, p3>>, out |-> Pending]
     : p1 \in Coords \X Coords \X Coords, p2 \in Coords \X Coords \X Coords,
       p3 \in Coords \X Coords \X Coords}

CallEquationPlane ==
    /\ call.fn = "equation_plane"
    /\ call.out = Pending
    /\ call' = [call EXCEPT !.out = [status |-> "ok", plane |-> equation_plane(call.points)]]
    /\ UNCHANGED DatasetVars

Identity3 == <<<<1, 0, 0>>, <<0, 1, 0>>, <<0, 0, 1>>>>

\* cv2.Rodrigues(n_vector * sita): a vector with a nan component gives a matrix of
\* nan; a vector of norm below DBL_EPSILON gives the identity; any other vector the
\* rotation about axis by the angle whose cosine is cos[1] / sqrt(cos[2])
Rodrigues(axis_is_nan, angle_is_zero, axis, cos) ==
    IF axis_is_nan THEN [kind |-> "nan", axis |-> <<0, 0, 0>>, cos |-> <<0, 0>>]
    ELSE IF angle_is_zero THEN [kind |-> "identity", axis |-> <<0, 0, 0>>, cos |-> <<1, 1>>]
    ELSE [kind |-> "rotation", axis |-> axis, cos |-> cos]

\* get_sensor2virtual(denorm). The arithmetic is numpy's floating point: a division
\* of 0.0 by 0.0 gives nan (with a RuntimeWarning), it does not raise, and
\* nan * sita is nan.
\*   target_vector = -denorm[:3]; its norm is the square root of norm2
\*   sita = acos(y / sqrt(norm2)), zero when y > 0 and y * y = norm2
\*   cross(target_vector_norm, origin_vector) = <<-z, 0, x>> / sqrt(norm2)
\*   n_vector = that cross product divided by its own norm, sqrt(x*x + z*z) / sqrt(norm2)
\* The result records whether a vector was divided by a zero norm.
get_sensor2virtual(denorm) ==
    LET x == 0 - denorm[1]
        y == 0 - denorm[2]
        z == 0 - denorm[3]
        norm2 == x * x + y * y + z * z
        cross == <<0 - z, 0, x>>
        cross_norm2 == cross[1] * cross[1] + cross[2] * cross[2] + cross[3] * cross[3]
    IN  [zero_norm_division |-> (norm2 = 0 \/ cross_norm2 = 0),
         rot_mat |-> Rodrigues(norm2 = 0 \/ cross_norm2 = 0, y > 0 /\ y * y = norm2,
                               cross, <<y, norm2>>)]

VirtualCalls ==
    {[fn |-> "get_sensor2virtual", denorm |-> <<a, b, c, d>>, out |-> Pending]
     : a \in Coords, b \in Coords, c \in Coords, d \in {0, 1}}

CallGetSensor2Virtual ==
    /\ call.fn = "get_sensor2virtual"
    /\ call.out = Pending
    /\ call' = [call EXCEPT !.out = get_sensor2virtual(call.denorm)]
    /\ UNCHANGED DatasetVars

-----------------------------------------------------------------------------
(* get_depth_map *)

GridH == 2         \* dims[0]
GridW == 2         \* dims[1]
MaxPoints == 2     \* most points handed to get_depth_map

\* Coordinates are in half pixels (3 is 1.5), all within the range of int16.
\* astype rounding down: -0.5 becomes -1
AsInt_floor(h) == h \div 2

\* astype(np.int16) of a float: the fraction is discarded (rounding toward zero)
AsInt(h) == IF h >= 0 THEN h \div 2 ELSE 0 - ((0 - h) \div 2)

\* valid_mask of point p = <<x, y, value>>
ValidMask(p, dims) ==
    /\ AsInt(p[2]) < dims[1]
    /\ AsInt(p[1]) < dims[2]
    /\ AsInt(p[2]) >= 0
    /\ AsInt(p[1]) >= 0

\* depth_map[rows, cols] = values: np.zeros(dims), then the valid points' values;
\* of several points with one cell the last one's value stays
get_depth_map(cam_depth, dims) ==
    [cell \in (0..(dims[1] - 1)) \X (0..(dims[2] - 1)) |->
        LET hits == {i \in 1..Len(cam_depth) :
                        /\ ValidMask(cam_depth[i], dims)
                        /\ AsInt(cam_depth[i][2]) = cell[1]
                        /\ AsInt(cam_depth[i][1]) = cell[2]}
        IN  IF hits = {} THEN 0
            ELSE cam_depth[CHOOSE i \in hits : \A j \in hits : j <= i][3]]

\* positions -1, -0.5, 0, 0.5, W - 0.5, W in x and -0.5, 0.5, H in y; values 1, 2
DepthPoints ==
    {-2, -1, 0, 1, 2 * GridW - 1, 2 * GridW} \X {-1, 1, 2 * GridH} \X {1, 2}

DepthCalls ==
    {[fn |-> "get_depth_map", cam_depth |-> pts, dims |-> <<GridH, GridW>>, out |-> Pending]
     : pts \in SeqsUpTo(DepthPoints, MaxPoints)}

CallGetDepthMap ==
    /\ call.fn = "get_depth_map"
    /\ call.out = Pending
    /\ call' = [call EXCEPT !.out = [status |-> "ok",
                                      depth_map |-> get_depth_map(call.cam_depth, call.dims)]]
    /\ UNCHANGED DatasetVars

-----------------------------------------------------------------------------
(* bev_transform *)

\* Angles in radians are counted in quarter turns: torch.asin(torch.tensor(1.0))
QuarterTurn == 1

\* np.pi
Pi == 2 * QuarterTurn

Cos(q) == CASE q % 4 = 0 -> 1 [] q % 4 = 1 -> 0 [] q % 4 = 2 -> -1 [] q % 4 = 3 -> 0

Sin(q) == CASE q % 4 = 0 -> 0 [] q % 4 = 1 -> 1 [] q % 4 = 2 -> 0 [] q % 4 = 3 -> -1

\* a @ b for 3 x 3 matrices
MatMul(a, b) ==
    [i \in 1..3 |-> [j \in 1..3 |-> a[i][1] * b[1][j] + a[i][2] * b[2][j] + a[i][3] * b[3][j]]]

\* m @ v for an n x n block of m and a vector of length n
MatVec(m, v) ==
    [i \in 1..Len(v) |->
        IF Len(v) = 2 THEN m[i][1] * v[1] + m[i][2] * v[2]
        ELSE m[i][1] * v[1] + m[i][2] * v[2] + m[i][3] * v[3]]

\* rot_mat = flip_mat @ (scale_mat @ rot_mat), rotate_angle already in radians
BevRotMat(rotate_angle, scale_ratio, flip_dx, flip_dy) ==
    LET rot == <<<<Cos(rotate_angle), 0 - Sin(rotate_angle), 0>>,
                 <<Sin(rotate_angle), Cos(rotate_angle), 0>>,
                 <<0, 0, 1>>>>
        scale == <<<<scale_ratio, 0, 0>>, <<0, scale_ratio, 0>>, <<0, 0, scale_ratio>>>>
        flip1 == IF flip_dx THEN MatMul(Identity3, <<<<-1, 0, 0>>, <<0, 1, 0>>, <<0, 0, 1>>>>)
                 ELSE Identity3
        flip2 == IF flip_dy THEN MatMul(flip1, <<<<1, 0, 0>>, <<0, -1, 0>>, <<0, 0, 1>>>>)
                 ELSE flip1
    IN  MatMul(flip2, MatMul(scale, rot))

\* BevYaw with the two flips taken in the other order
BevYaw_dy_first(yaw, rotate_angle, flip_dx, flip_dy) ==
    LET y1 == yaw + rotate_angle
        y2 == IF flip_dy THEN 0 - y1 ELSE y1
    IN  IF flip_dx THEN 2 * QuarterTurn - y2 ELSE y2

\* gt_boxes[:, 6] after the three updates, rotate_angle already in radians
BevYaw(yaw, rotate_angle, flip_dx, flip_dy) ==
    LET y1 == yaw + rotate_angle
        y2 == IF flip_dx THEN 2 * QuarterTurn - y1 ELSE y1
    IN  IF flip_dy THEN 0 - y2 ELSE y2

\* a box is <<x, y, z, dx, dy, dz, yaw, vx, vy>>; rotate_angle in degrees
bev_transform(gt_boxes, rotate_angle, scale_ratio, flip_dx, flip_dy) ==
    LET rad == (rotate_angle * Pi) \div 180
        rot_mat == BevRotMat(rad, scale_ratio, flip_dx, flip_dy)
        Moved(b) ==
            MatVec(rot_mat, <<b[1], b[2], b[3]>>)
                \o <<b[4] * scale_ratio, b[5] * scale_ratio, b[6] * scale_ratio>>
                \o <<BevYaw(b[7], rad, flip_dx, flip_dy)>>
                \o MatVec(rot_mat, <<b[8], b[9]>>)
    IN  [gt_boxes |-> IF Len(gt_boxes) > 0
                      THEN [j \in 1..Len(gt_boxes) |-> Moved(gt_boxes[j])]
                      ELSE gt_boxes,
         rot_mat |-> rot_mat]

\* boxes at <<1, 2, 1>> of size <<1, 2, 3>> moving along x, with any yaw
BevBoxes == {<<1, 2, 1, 1, 2, 3, yaw, 1, 0>> : yaw \in -1..2}

BevCalls ==
    {[fn |-> "bev_transform", gt_boxes |-> b, rotate_angle |-> r, scale_ratio |-> sc,
      flip_dx |-> fx, flip_dy |-> fy, out |-> Pending]
     : b \in SeqsUpTo(BevBoxes, MaxBoxes), r \in {-90, 0, 90, 180}, sc \in {1, 2},
       fx \in BOOLEAN, fy \in BOOLEAN}

CallBevTransform ==
    /\ call.fn = "bev_transform"
    /\ call.out = Pending
    /\ call' = [call EXCEPT !.out =
                    bev_transform(call.gt_boxes, call.rotate_angle, call.scale_ratio,
                                  call.flip_dx, call.flip_dy)]
    /\ UNCHANGED DatasetVars

-----------------------------------------------------------------------------
(* The calls of the module-level functions *)

InitFn ==
    /\ Detached
    /\ \/ call \in CollateCalls
       \/ call \in PlaneCalls
       \/ call \in VirtualCalls
       \/ call \in DepthCalls
       \/ call \in BevCalls

NextFn ==
    \/ CallCollateFn
    \/ CallEquationPlane
    \/ CallGetSensor2Virtual
    \/ CallGetDepthMap
    \/ CallBevTransform

SpecFn == InitFn /\ [][NextFn]_vars

-----------------------------------------------------------------------------
(* Properties *)

SceneOf(i) == Info(self, i).scene_token

\* positions in cam_infos of the frames appended for key offset k and sweep offset q
FramesFor(k, q) == {f \in 1..Len(cam_infos) : cam_infos[f].k = k /\ cam_infos[f].q = q}

\* every key-frame record holds all configured cameras
KeyFramesComplete ==
    \A r \in 0..(Len(self.infos) - 1) :
        \A j \in 1..Len(self.ida_aug_conf.cams) :
            self.ida_aug_conf.cams[j] \in Info(self, r).cam_infos

\* the record the claim C1 names for key offset position k
ExpectedKey(k) ==
    LET c == idx + self.key_idxes[k] IN
    IF c >= 0 /\ SceneOf(c) = SceneOf(idx) THEN c ELSE idx

\* C1: for every configured key offset the key-frame record read is infos[idx+k]
\* when idx+k >= 0 and that record is of the scene of infos[idx], and infos[idx]
\* otherwise; no frame comes from a negative index or another scene, and the
\* first frame is the requested record.
C1_KeyFrameRead ==
    pc = "image" =>
        /\ \A k \in 1..Len(self.key_idxes) :
              /\ Cardinality(FramesFor(k, 0)) = 1
              /\ \A f \in FramesFor(k, 0) :
                    /\ cam_infos[f].src = "cam_infos"
                    /\ cam_infos[f].rec = ExpectedKey(k)
        /\ \A f \in 1..Len(cam_infos) :
              /\ cam_infos[f].rec >= 0
              /\ SceneOf(cam_infos[f].rec) = SceneOf(idx)
        /\ cam_infos[1] = Frame("cam_infos", idx, -1, 1, 0)

\* a call in which one key offset reads an earlier record and another one, which
\* lands in another scene, is replaced by the requested record
C1_Witness ==
    /\ pc = "image"
    /\ \E k \in 1..Len(self.key_idxes) : \E f \in FramesFor(k, 0) :
          cam_infos[f].rec = idx + self.key_idxes[k] /\ cam_infos[f].rec # idx
    /\ \E k \in 1..Len(self.key_idxes) : \E f \in FramesFor(k, 0) :
          /\ idx + self.key_idxes[k] >= 0
          /\ SceneOf(idx + self.key_idxes[k]) # SceneOf(idx)
          /\ cam_infos[f].rec = idx

\* the record read for the key offset at position k
KeyRec(k) == CurIdx(self, idx, self.key_idxes[k])

\* the largest sweep index the walk for sweep offset position q of record r starts at
WalkStart(r, q) == Min(Len(Info(self, r).sweeps) - 1, self.sweeps_idx[q])

\* C2: (on a store whose key frames hold all cameras) for each key frame with a
\* non-empty sweep list and each sweep offset s, exactly one sweep frame is selected, sweeps[i] for the largest i <= min(s,
\* len(sweeps)-1) at which every chosen camera has an entry; with an empty sweep
\* list the key frame's own camera record is selected instead.
C2_ExactlyOneSweepFrame ==
    (pc = "image" /\ KeyFramesComplete) =>
        \A k \in 1..Len(self.key_idxes) : \A q \in 1..Len(self.sweeps_idx) :
            /\ Cardinality(FramesFor(k, q)) = 1
            /\ \A f \in FramesFor(k, q) :
                  IF Len(Info(self, KeyRec(k)).sweeps) = 0
                  THEN cam_infos[f].src = "cam_infos" /\ cam_infos[f].rec = KeyRec(k)
                  ELSE /\ cam_infos[f].src = "sweeps"
                       /\ cam_infos[f].rec = KeyRec(k)
                       /\ cam_infos[f].i \in 0..WalkStart(KeyRec(k), q)
                       /\ cams \in Seq(FrameCams(self, cam_infos[f]))
                       /\ \A j \in (cam_infos[f].i + 1)..WalkStart(KeyRec(k), q) :
                             cams \notin Seq(Info(self, KeyRec(k)).sweeps[j + 1])

\* C3: within one call in training mode the perturbation (whether applied, ratio,
\* roll, pitch) of a camera is the same for every sweep frame of that camera.
C3_OncePerCamera ==
    (pc = "image" /\ self.is_train) =>
        \A c \in 1..Len(sweep_intrin_mats) :
            \A f, g \in 1..Len(sweep_intrin_mats[c]) :
                sweep_intrin_mats[c][f] = sweep_intrin_mats[c][g]

\* C4: the returned timestamps tensor has one entry per chosen camera of every
\* emitted frame, shape [frames, cameras], like the reference-heights tensor.
C4_TimestampsShape ==
    ret.status = "ok" =>
        /\ ret.timestamps_shape = <<Len(ret.frames), Len(ret.cams)>>
        /\ ret.timestamps_shape = ret.reference_heights_shape

NamesVariant(root) == StrContains("waymo", root) \/ StrContains("thutraf", root)

NeverPerturbed ==
    \A c \in 1..Len(sweep_intrin_mats) : \A f \in 1..Len(sweep_intrin_mats[c]) :
        ~sweep_intrin_mats[c][f].data_augmentation

\* C5 as stated: on a waymo or thutraf dataset no camera frame is ever perturbed,
\* whatever is_train and return_depth are.
C5_Original == (pc = "image" /\ NamesVariant(self.data_root)) => NeverPerturbed

\* C5: on a waymo or thutraf dataset with return_depth enabled no camera frame is
\* ever perturbed, whatever is_train is.
C5_VariantWithDepth ==
    (pc = "image" /\ NamesVariant(self.data_root) /\ self.return_depth) => NeverPerturbed

\* a training call on a thutraf dataset with depth, past its first camera
C5_Witness ==
    /\ pc = "image"
    /\ self.is_train /\ self.return_depth
    /\ StrContains("thutraf", self.data_root)
    /\ Len(sweep_intrin_mats) >= 1

\* C6: two calls with the same index return tensors of the same shapes.
C6_SameShapes ==
    (ret.status = "ok" /\ prev.status = "ok" /\ prev.idx = ret.idx) =>
        prev.shapes = Shapes(ret)

\* C7: when every key-frame record holds all configured cameras, every frame
\* handed to get_image has an entry for every chosen camera, whatever cameras
\* the sweeps miss.
C7_CompleteCoverage ==
    (pc = "image" /\ KeyFramesComplete) =>
        \A f \in 1..Len(cam_infos) : \A j \in 1..Len(cams) :
            cams[j] \in FrameCams(self, cam_infos[f])

\* a call that passed over a sweep missing a chosen camera and took an earlier one
C7_Witness ==
    /\ pc = "image"
    /\ KeyFramesComplete
    /\ \E f \in 1..Len(cam_infos) :
          /\ cam_infos[f].src = "sweeps"
          /\ cam_infos[f].i < WalkStart(cam_infos[f].rec, cam_infos[f].q)

\* sweep offset 2 asked of a key frame whose sweep list is one entry with all
\* chosen cameras
C8_Case(k, q) ==
    /\ self.sweeps_idx[q] = 2
    /\ Len(Info(self, KeyRec(k)).sweeps) = 1
    /\ cams \in Seq(Info(self, KeyRec(k)).sweeps[1])

\* C8 as stated: in that case the selected frame is the key frame's own camera record.
C8_Original ==
    pc = "image" =>
        \A k \in 1..Len(self.key_idxes) : \A q \in 1..Len(self.sweeps_idx) :
            C8_Case(k, q) =>
                /\ FramesFor(k, q) # {}
                /\ \A f \in FramesFor(k, q) : cam_infos[f].src = "cam_infos"

\* C8: in that case the selected frame is sweeps[0] of that key frame's record.
C8_ClampsToLastSweep ==
    pc = "image" =>
        \A k \in 1..Len(self.key_idxes) : \A q \in 1..Len(self.sweeps_idx) :
            C8_Case(k, q) =>
                /\ Cardinality(FramesFor(k, q)) = 1
                /\ \A f \in FramesFor(k, q) :
                      cam_infos[f] = Frame("sweeps", KeyRec(k), 0, k, q)

C8_Witness ==
    /\ pc = "image"
    /\ \E k \in 1..Len(self.key_idxes) : \E q \in 1..Len(self.sweeps_idx) :
          C8_Case(k, q) /\ FramesFor(k, q) # {}

\* C9: the boxes are returned with shape [N,9] and the labels with shape [N];
\* N is 0 when the dataset is not in training mode.
C9_GtShapes ==
    ret.status = "ok" =>
        /\ ret.gt_boxes_shape = <<Len(ret.gt_labels), Len(BoxFields)>>
        /\ ret.gt_labels_shape = <<Len(ret.gt_labels)>>
        /\ ~self.is_train => Len(ret.gt_labels) = 0

BadOffsets(a) ==
    \/ \E j \in 1..Len(a.sweep_idxes) : a.sweep_idxes[j] < 0
    \/ \E j \in 1..Len(a.key_idxes) : a.key_idxes[j] >= 0

\* C10: construction fails exactly when some sweep offset is negative or some key
\* offset is non-negative; a constructed dataset has sweep offsets >= 0 and key
\* offsets 0 followed only by negative offsets.
C10_OffsetsValidated ==
    pc # "new" =>
        /\ pc = "failed" <=> BadOffsets(args)
        /\ pc # "failed" =>
              /\ \A j \in 1..Len(self.sweeps_idx) : self.sweeps_idx[j] >= 0
              /\ Len(self.key_idxes) >= 1
              /\ self.key_idxes[1] = 0
              /\ \A j \in 2..Len(self.key_idxes) : self.key_idxes[j] < 0

\* a construction rejected for a key offset that is not negative
C10_Witness ==
    /\ pc = "failed"
    /\ \E j \in 1..Len(args.key_idxes) : args.key_idxes[j] >= 0
    /\ \A j \in 1..Len(args.sweep_idxes) : args.sweep_idxes[j] >= 0

-----------------------------------------------------------------------------
\* C11: with is_train False, two consecutive successful calls of __getitem__ with
\* the same index return identical results (cameras, per-frame perturbation
\* decision, ida and bda parameters, timestamps, reference heights, ground truth,
\* depth and height maps), the files on disk being the same for both calls.
C11_EvalDeterministic ==
    (pc = "idle" /\ ~self.is_train /\ ret.status = "ok" /\ prev.status = "ok"
        /\ prev.idx = ret.idx)
    => prev.result = ret

C11_Witness ==
    /\ pc = "idle" /\ ~self.is_train /\ self.return_depth
    /\ self.ida_aug_conf.Ncams < Len(self.ida_aug_conf.cams)
    /\ ret.status = "ok" /\ prev.status = "ok" /\ prev.idx = ret.idx
    /\ prev.result = ret
    /\ ret.cams = self.ida_aug_conf.cams
    /\ \A f \in 1..Len(ret.intrin_mats) : \A c \in 1..Len(ret.cams) :
          ret.intrin_mats[f][c] = NoAug

-----------------------------------------------------------------------------
\* a finished call of collate_fn on a non-empty batch whose samples have equal
\* tensor shapes and all carry, or all lack, the depth and height maps
CollateDone ==
    /\ call.fn = "collate_fn" /\ call.out # Pending
    /\ call.data # <<>>
    /\ \A i \in 1..Len(call.data) :
          /\ Len(call.data[i]) = Len(call.data[1])
          /\ \A k \in StackedItems : call.data[i][k].shape = call.data[1][k].shape

SamplesCarryDepth == \A i \in 1..Len(call.data) : Len(call.data[i]) = 14

\* C12 as stated: the output includes the stacked depth and height tensors exactly
\* when the per-sample outputs carry them; in every other case collate_fn returns
\* the six base items and does not fail.
C12_Original ==
    CollateDone =>
        /\ call.out.status = "ok"
        /\ call.out.len = (IF SamplesCarryDepth THEN 8 ELSE 6)

\* C12: the output includes the stacked depth and height tensors exactly when
\* collate_fn is called with is_return_depth True and the samples carry them;
\* with is_return_depth False (the default) it returns the six base items whether
\* or not the samples carry the maps; with is_return_depth True on samples that
\* lack them it raises IndexError.
C12_FlagDecides ==
    CollateDone =>
        IF ~call.is_return_depth
        THEN call.out.status = "ok" /\ call.out.len = 6
                /\ call.out.depth = <<>> /\ call.out.height = <<>>
        ELSE IF SamplesCarryDepth
        THEN /\ call.out.status = "ok" /\ call.out.len = 8
             /\ call.out.depth = <<Stack([i \in 1..Len(call.data) |-> call.data[i][13]])>>
             /\ call.out.height = <<Stack([i \in 1..Len(call.data) |-> call.data[i][14]])>>
        ELSE call.out.status = "IndexError"

C12_Witness ==
    /\ CollateDone /\ call.is_return_depth /\ SamplesCarryDepth
    /\ Len(call.data) = 2
    /\ call.out.status = "ok" /\ call.out.len = 8
    /\ call.out.depth[1].shape = <<2, 2, 2, 3>>

\* C13: when collate_fn returns on N per-sample outputs, the image tensor, every
\* matrix of mats_dict and the timestamp tensor have leading dimension N, and the
\* box, label and metadata lists have length N with the i-th sample's own object
\* as i-th entry (boxes are not padded or stacked).
C13_BatchLayout ==
    (call.fn = "collate_fn" /\ call.out # Pending /\ call.out.status = "ok") =>
        LET N == Len(call.data)
            out == call.out
        IN  /\ out.imgs.shape[1] = N
            /\ out.timestamps.shape[1] = N
            /\ \A m \in DOMAIN out.mats_dict : out.mats_dict[m].shape[1] = N
            /\ Len(out.img_metas) = N /\ Len(out.gt_boxes) = N /\ Len(out.gt_labels) = N
            /\ \A i \in 1..N :
                  /\ out.img_metas[i] = call.data[i][10]
                  /\ out.gt_boxes[i] = call.data[i][11]
                  /\ out.gt_labels[i] = call.data[i][12]
                  /\ out.imgs.stacked[i] = call.data[i][1]
                  /\ out.timestamps.stacked[i] = call.data[i][8]

C13_Witness ==
    /\ call.fn = "collate_fn" /\ call.out # Pending /\ call.out.status = "ok"
    /\ Len(call.data) = 2
    /\ call.out.imgs.shape[1] = 2
    /\ call.out.gt_boxes[1].shape # call.out.gt_boxes[2].shape
    /\ call.out.gt_boxes[2].token = SampleTokens[2]

-----------------------------------------------------------------------------
\* the annotations of the record of the last call that the claim C14 keeps: the
\* detection category is a configured class and some lidar or radar point supports it
C14_Kept ==
    {a \in 1..Len(Info(self, ret.idx).ann_infos) :
        LET ann == Info(self, ret.idx).ann_infos[a] IN
        /\ \E j \in 1..Len(self.classes) :
              self.classes[j] = map_name_from_general_to_detection[ann.category_name]
        /\ ann.num_lidar_pts + ann.num_radar_pts > 0}

\* C14: in training, get_gt raises nothing and returns boxes and labels of equal
\* length that are exactly the annotations whose category is a configured class
\* and whose lidar + radar point count is positive, in annotation order, each
\* label being the class index of its annotation.
C14_GtFilter ==
    (pc = "idle" /\ self.is_train /\ ret.status = "ok") =>
        LET anns == Info(self, ret.idx).ann_infos
            AnnOf(j) == ret.gt_boxes[j][1][2]
        IN  /\ Len(ret.gt_boxes) = Len(ret.gt_labels)
            /\ Len(ret.gt_boxes) = Cardinality(C14_Kept)
            /\ \A j \in 1..Len(ret.gt_boxes) : AnnOf(j) \in C14_Kept
            /\ \A i, j \in 1..Len(ret.gt_boxes) : i < j => AnnOf(i) < AnnOf(j)
            /\ \A j \in 1..Len(ret.gt_boxes) :
                  self.classes[ret.gt_labels[j] + 1] =
                      map_name_from_general_to_detection[anns[AnnOf(j)].category_name]

C14_Witness ==
    /\ pc = "idle" /\ self.is_train /\ ret.status = "ok"
    /\ Len(Info(self, ret.idx).ann_infos) = 2
    /\ Info(self, ret.idx).ann_infos[1].category_name = "vehicle.car"
    /\ Info(self, ret.idx).ann_infos[1].num_lidar_pts = 0
    /\ Info(self, ret.idx).ann_infos[1].num_radar_pts = 0
    /\ Info(self, ret.idx).ann_infos[2].num_radar_pts = 1
    /\ Len(ret.gt_boxes) = 1 /\ ret.gt_boxes[1][1][2] = 2
    /\ ret.gt_labels = <<0>>

-----------------------------------------------------------------------------
\* the depth (or height) maps of a result are of normal shape: one per chosen
\* camera, each final_dim rows by columns
NormalMaps(maps, kind) ==
    /\ Len(maps) = Len(ret.cams)
    /\ \A c \in 1..Len(maps) :
          /\ maps[c].kind = kind /\ maps[c].cam = ret.cams[c]
          /\ maps[c].shape = self.ida_aug_conf.final_dim

\* C15: with return_depth enabled, when the key frame's LiDAR file does not exist
\* (and every frame holds the chosen cameras), __getitem__ completes: it returns
\* 14 items, the depth and height maps being of normal shape and built from the
\* substitute cloud of 1000 points.
C15_MissingLidarFile ==
    (pc = "idle" /\ self.return_depth /\ ret.status # "none"
        /\ ~Info(self, ret.idx).lidar_infos.file_exists
        /\ KeyFramesComplete)
    => /\ ret.status = "ok"
       /\ ret.len = 14
       /\ NormalMaps(ret.gt_depth, "depth")
       /\ NormalMaps(ret.gt_height, "height")
       /\ \A c \in 1..Len(ret.cams) :
             /\ ret.gt_depth[c].points = [source |-> "ones", n |-> 1000]
             /\ ret.gt_height[c].points = [source |-> "ones", n |-> 1000]

C15_Witness ==
    /\ pc = "idle" /\ self.return_depth /\ self.is_train
    /\ ret.status = "ok" /\ ret.len = 14
    /\ ~Info(self, ret.idx).lidar_infos.file_exists
    /\ Len(ret.gt_depth) = 2
    /\ ret.gt_depth[1].points.n = 1000
    /\ ret.gt_depth[1].shape = <<2, 3>>
    /\ ret.gt_depth[1].aug.data_augmentation

-----------------------------------------------------------------------------
\* a step leaves every field of the dataset object as it was
ConfigurationKept ==
    /\ self'.infos = self.infos
    /\ self'.ida_aug_conf = self.ida_aug_conf
    /\ self'.classes = self.classes
    /\ self'.key_idxes = self.key_idxes
    /\ self'.sweeps_idx = self.sweeps_idx
    /\ self'.is_train = self.is_train
    /\ self'.data_root = self.data_root
    /\ self'.return_depth = self.return_depth

\* C16: no step of a __getitem__ call (its start, a camera pass of get_image, its
\* return or its raising) changes the dataset's infos or its configuration
\* (ida_aug_conf, classes, key and sweep offsets, is_train, data_root, return_depth).
C16_DatasetUnchanged ==
    [][(pc = "idle" \/ pc = "image") => ConfigurationKept]_vars

\* two calls have completed, the first with a random camera subset and ground
\* truth, and the dataset is as constructed
C16_Witness ==
    /\ pc = "idle" /\ prev.status = "ok" /\ ret.status = "ok"
    /\ self.is_train /\ Len(ret.cams) < Len(self.ida_aug_conf.cams)
    /\ self = NewSelf(args)

-----------------------------------------------------------------------------
\* C17: get_sensor2virtual on plane coefficients whose normal (the target vector
\* -denorm[:3]) equals the up axis (0, 1, 0) returns the identity rotation, and
\* no vector is divided by a zero norm.
C17_IdentityWhenAligned ==
    (call.fn = "get_sensor2virtual" /\ call.out # Pending
        /\ call.denorm[1] = 0 /\ call.denorm[2] = -1 /\ call.denorm[3] = 0)
    => /\ call.out.rot_mat.kind = "identity"
       /\ ~call.out.zero_norm_division

-----------------------------------------------------------------------------
\* a finished call of get_depth_map
DepthDone == call.fn = "get_depth_map" /\ call.out # Pending

\* point i lies inside the grid [0, W) x [0, H) (coordinates in half pixels)
InsideGrid(i) ==
    /\ 0 <= call.cam_depth[i][1] /\ call.cam_depth[i][1] < 2 * call.dims[2]
    /\ 0 <= call.cam_depth[i][2] /\ call.cam_depth[i][2] < 2 * call.dims[1]

\* point i is within one pixel left of or above the grid, or inside it
WithinTruncation(i) ==
    /\ -2 < call.cam_depth[i][1] /\ call.cam_depth[i][1] < 2 * call.dims[2]
    /\ -2 < call.cam_depth[i][2] /\ call.cam_depth[i][2] < 2 * call.dims[1]

\* the integer part of a coordinate given in half pixels
IntegerPart(h) == IF h < 0 THEN 0 - ((0 - h) \div 2) ELSE h \div 2

\* C18 as stated: a cell holds a point's value only if that point's position lies
\* inside the grid [0, W) x [0, H) and rounds to the cell; points outside change
\* no cell.
C18_Original ==
    DepthDone =>
        \A cell \in DOMAIN call.out.depth_map :
            call.out.depth_map[cell] # 0 =>
                \E i \in 1..Len(call.cam_depth) :
                    /\ InsideGrid(i)
                    /\ call.cam_depth[i][3] = call.out.depth_map[cell]
                    /\ cell[2] \in {call.cam_depth[i][1] \div 2, (call.cam_depth[i][1] + 1) \div 2}
                    /\ cell[1] \in {call.cam_depth[i][2] \div 2, (call.cam_depth[i][2] + 1) \div 2}

\* C18: for coordinates in the range of int16, each cell of the grid holds the
\* value of the last point whose coordinates, truncated toward zero, are the
\* cell's (column, row), and 0 if there is none; these are the points of
\* position in (-1, W) x (-1, H), so a point up to one pixel left of or above the
\* grid is written into column or row 0, and every other point is dropped.
C18_TruncatedCell ==
    DepthDone =>
        \A cell \in DOMAIN call.out.depth_map :
            LET here == {i \in 1..Len(call.cam_depth) :
                            /\ WithinTruncation(i)
                            /\ IntegerPart(call.cam_depth[i][1]) = cell[2]
                            /\ IntegerPart(call.cam_depth[i][2]) = cell[1]}
            IN  IF here = {} THEN call.out.depth_map[cell] = 0
                ELSE \E i \in here :
                        /\ \A j \in here : j <= i
                        /\ call.out.depth_map[cell] = call.cam_depth[i][3]

\* a point at (-0.5, -0.5) is written into cell (0, 0), one at (W, 0.5) is dropped
C18_Witness ==
    /\ DepthDone
    /\ call.cam_depth = <<<<-1, -1, 2>>, <<2 * GridW, 1, 1>>>>
    /\ call.out.depth_map[<<0, 0>>] = 2
    /\ \A cell \in DOMAIN call.out.depth_map : cell # <<0, 0>> => call.out.depth_map[cell] = 0

-----------------------------------------------------------------------------
\* a finished call of bev_transform on a non-empty box set
BevDone == call.fn = "bev_transform" /\ call.out # Pending /\ Len(call.gt_boxes) > 0

\* C19: on a non-empty box set every box's yaw becomes: the yaw plus the rotation
\* angle (given in degrees, added in radians), then pi minus that if flip_dx, then
\* the negation of that if flip_dy; in particular with flip_dx only, rotation 0
\* and scale 1 a yaw of 0 becomes pi. (Angles in quarter turns: pi is 2.)
C19_YawOrder ==
    BevDone =>
        /\ Len(call.out.gt_boxes) = Len(call.gt_boxes)
        /\ \A j \in 1..Len(call.gt_boxes) :
              LET added == call.gt_boxes[j][7] + call.rotate_angle \div 90
                  after_dx == IF call.flip_dx THEN 2 - added ELSE added
                  after_dy == IF call.flip_dy THEN 0 - after_dx ELSE after_dx
              IN  call.out.gt_boxes[j][7] = after_dy
        /\ \A j \in 1..Len(call.gt_boxes) :
              (call.flip_dx /\ ~call.flip_dy /\ call.rotate_angle = 0
                    /\ call.scale_ratio = 1 /\ call.gt_boxes[j][7] = 0)
                => call.out.gt_boxes[j][7] = 2

\* flip_dx only, rotation 0, scale 1, on a box of yaw 0 and a box of yaw pi / 2
C19_Witness ==
    /\ BevDone
    /\ call.flip_dx /\ ~call.flip_dy /\ call.rotate_angle = 0 /\ call.scale_ratio = 1
    /\ Len(call.gt_boxes) = 2
    /\ call.gt_boxes[1][7] = 0 /\ call.out.gt_boxes[1][7] = 2
    /\ call.gt_boxes[2][7] = 1 /\ call.out.gt_boxes[2][7] = 1
    /\ call.out.gt_boxes[1][1] = -1

-----------------------------------------------------------------------------
\* a finished call of equation_plane
PlaneDone == call.fn = "equation_plane" /\ call.out # Pending

\* the three points lie on one line: the edge vectors from the first point are
\* linearly dependent
Collinear(points) ==
    \E s, t \in -4..4 :
        /\ s # 0 \/ t # 0
        /\ \A k \in 1..3 :
              s * (points[2][k] - points[1][k]) = t * (points[3][k] - points[1][k])

\* C20: the coefficients (a, b, c, d) equation_plane returns satisfy
\* a*x + b*y + c*z + d = 0 at each of the three input points, and the normal
\* (a, b, c) is the zero vector when the points are collinear (exact arithmetic).
C20_PlaneThroughPoints ==
    PlaneDone =>
        LET pl == call.out.plane IN
        /\ \A i \in 1..3 :
              pl[1] * call.points[i][1] + pl[2] * call.points[i][2]
                    + pl[3] * call.points[i][3] + pl[4] = 0
        /\ Collinear(call.points) => (pl[1] = 0 /\ pl[2] = 0 /\ pl[3] = 0)

\* three distinct collinear points, with a zero normal
C20_Witness ==
    /\ PlaneDone
    /\ call.points = <<<<-1, -1, -1>>, <<0, 0, 0>>, <<1, 1, 1>>>>
    /\ Collinear(call.points)
    /\ call.out.plane = <<0, 0, 0, 0>>

====
